---- MODULE Spec2Model ----
(***************************************************************************)
(* The ABI type model of src/types.rs: the Type enum, is_dynamic, the      *)
(* Display rendering, the derived equality, and Deserialize, which hands   *)
(* the descriptor to parse_exact_type.                                      *)
(*                                                                         *)
(* A Type value is a record with a tag and the variant's parameters.       *)
(* Strings are TLA+ strings; Len, SubSeq and \o act on them per character. *)
(***************************************************************************)
EXTENDS Naturals, Sequences, FiniteSets

VARIABLES
    entry,   \* the ParamEntry handed to deserialize, or NoEntry
    param,   \* what deserialize returned: Ok(..) / Err(..), or NoParam
    self,    \* the Type value the operations are applied to, or NoType
    result   \* what the last operation returned

vars == <<entry, param, self, result>>

-----------------------------------------------------------------------------
(* Bounds of the model *)

\* Largest number of nodes of a Type tree drawn as an input.
MaxNodes == 3

\* Largest number of array suffix tokens on a type string drawn as an input.
MaxSuffixes == 2

\* Largest number of descriptors (the top one and its nested components) in
\* a descriptor drawn as an input.
MaxEntries == 3

-----------------------------------------------------------------------------
(* enum Type *)

Uint(size) == [tag |-> "Uint", size |-> size]
Int(size) == [tag |-> "Int", size |-> size]
Address == [tag |-> "Address"]
Bool == [tag |-> "Bool"]
FixedBytes(size) == [tag |-> "FixedBytes", size |-> size]
FixedArray(ty, size) == [tag |-> "FixedArray", ty |-> ty, size |-> size]
String == [tag |-> "String"]
Bytes == [tag |-> "Bytes"]
Array(ty) == [tag |-> "Array", ty |-> ty]
\* tys is a sequence of pairs <<name, type>>: Vec<(String, Type)>
Tuple(tys) == [tag |-> "Tuple", tys |-> tys]

NoType == [tag |-> "NoType"]
NoEntry == [tag |-> "NoEntry"]
NoParam == [tag |-> "NoParam"]
NoResult == [op |-> "none"]

-----------------------------------------------------------------------------
(* Type::is_dynamic *)

RECURSIVE is_dynamic(_)
is_dynamic_fixed_array_static(t) ==
    CASE t.tag = "Uint" -> FALSE
      [] t.tag = "Int" -> FALSE
      [] t.tag = "Address" -> FALSE
      [] t.tag = "Bool" -> FALSE
      [] t.tag = "FixedBytes" -> FALSE
      [] t.tag = "FixedArray" -> FALSE
      [] t.tag = "String" -> TRUE
      [] t.tag = "Bytes" -> TRUE
      [] t.tag = "Array" -> TRUE
      [] t.tag = "Tuple" -> \E i \in DOMAIN t.tys : is_dynamic(t.tys[i][2])

is_dynamic(t) ==
    CASE t.tag = "Uint" -> FALSE
      [] t.tag = "Int" -> FALSE
      [] t.tag = "Address" -> FALSE
      [] t.tag = "Bool" -> FALSE
      [] t.tag = "FixedBytes" -> FALSE
      [] t.tag = "FixedArray" -> is_dynamic(t.ty)
      [] t.tag = "String" -> TRUE
      [] t.tag = "Bytes" -> TRUE
      [] t.tag = "Array" -> TRUE
      [] t.tag = "Tuple" -> \E i \in DOMAIN t.tys : is_dynamic(t.tys[i][2])

-----------------------------------------------------------------------------
(* impl Display for Type *)

\* The decimal digits, and the digit character of d in 0..9.
Digits == "0123456789"
DigitChar(d) == SubSeq(Digits, d + 1, d + 1)

\* "{}" applied to a usize: its decimal numeral, no sign, no leading zero.
RECURSIVE ToDec(_)
ToDec(n) == IF n < 10 THEN DigitChar(n) ELSE ToDec(n \div 10) \o DigitChar(n % 10)

\* [String]::join(sep)
RECURSIVE join(_, _)
join(strs, sep) ==
    IF Len(strs) = 0 THEN ""
    ELSE IF Len(strs) = 1 THEN strs[1]
    ELSE strs[1] \o sep \o join(Tail(strs), sep)

RECURSIVE fmt(_)
\* tys.iter().map(|(_, ty)| format!("{}", ty)).collect::<Vec<_>>()
fmt_fields(tys) == [i \in DOMAIN tys |-> fmt(tys[i][2])]

fmt_tuple_with_names(tys) ==
    "(" \o join([i \in DOMAIN tys |-> tys[i][1] \o " " \o fmt(tys[i][2])], ",") \o ")"

fmt_tuple(tys) == "(" \o join(fmt_fields(tys), ",") \o ")"

fmt(t) ==
    CASE t.tag = "Uint" -> "uint" \o ToDec(t.size)
      [] t.tag = "Int" -> "int" \o ToDec(t.size)
      [] t.tag = "Address" -> "address"
      [] t.tag = "Bool" -> "bool"
      [] t.tag = "String" -> "string"
      [] t.tag = "FixedBytes" -> "bytes" \o ToDec(t.size)
      [] t.tag = "Bytes" -> "bytes"
      [] t.tag = "FixedArray" -> "----" \o fmt(t.ty) \o "[" \o ToDec(t.size) \o "]"
      [] t.tag = "Array" -> "----" \o fmt(t.ty) \o "[]"
      [] t.tag = "Tuple" -> fmt_tuple(t.tys)

-----------------------------------------------------------------------------
(* #[derive(PartialEq, Eq)] on Type *)

RECURSIVE eq(_, _)
eq_fields_ignoring_names(xs, ys) ==
    /\ Len(xs) = Len(ys)
    /\ \A i \in DOMAIN xs : eq(xs[i][2], ys[i][2])

\* Vec<(String, Type)> == Vec<(String, Type)>: same length, pairwise equal,
\* the pair's name compared with String's == and its type with Type's.
eq_fields(xs, ys) ==
    /\ Len(xs) = Len(ys)
    /\ \A i \in DOMAIN xs : xs[i][1] = ys[i][1] /\ eq(xs[i][2], ys[i][2])

eq(a, b) ==
    /\ a.tag = b.tag
    /\ CASE a.tag \in {"Uint", "Int", "FixedBytes"} -> a.size = b.size
         [] a.tag \in {"Address", "Bool", "String", "Bytes"} -> TRUE
         [] a.tag = "FixedArray" -> eq(a.ty, b.ty) /\ a.size = b.size
         [] a.tag = "Array" -> eq(a.ty, b.ty)
         [] a.tag = "Tuple" -> eq_fields(a.tys, b.tys)

-----------------------------------------------------------------------------
(* Option<T> *)

None == [some |-> FALSE]
Some(v) == [some |-> TRUE, v |-> v]

(* Result<T, E> *)
Ok(v) == [ok |-> TRUE, val |-> v]
Err(e) == [ok |-> FALSE, err |-> e]

-----------------------------------------------------------------------------
(* parse_exact_type: the type string parser and the component resolver.    *)
(* Deserialize calls it; its grammar, algorithm and error kinds are those  *)
(* of the specification's sections 4.2, 4.3 and 7.                         *)

StartsWith(s, p) == Len(s) >= Len(p) /\ SubSeq(s, 1, Len(p)) = p
Drop(s, n) == SubSeq(s, n + 1, Len(s))

IsDigit(c) == \E d \in 0..9 : DigitChar(d) = c
DigitVal(c) == CHOOSE d \in 0..9 : DigitChar(d) = c

\* The longest prefix of s made of digits.
RECURSIVE LeadingDigits(_)
LeadingDigits(s) ==
    IF Len(s) > 0 /\ IsDigit(Head(s)) THEN Head(s) \o LeadingDigits(Tail(s)) ELSE ""

\* The number a digit string writes.
RECURSIVE FromDec(_)
FromDec(ds) ==
    IF Len(ds) = 0 THEN 0
    ELSE 10 * FromDec(SubSeq(ds, 1, Len(ds) - 1)) + DigitVal(SubSeq(ds, Len(ds), Len(ds)))

\* A numeral as rendering writes it: digits, no leading zero.
IsNumeral(ds) == Len(ds) > 0 /\ (Len(ds) = 1 \/ Head(ds) # "0")

Keywords == {"uint", "int", "address", "bool", "bytes", "string", "tuple"}

\* Longest match on the keyword; "" when s starts with none.
keyword(s) ==
    LET hits == {k \in Keywords : StartsWith(s, k)}
    IN  IF hits = {} THEN ""
        ELSE CHOOSE k \in hits : \A j \in hits : Len(j) <= Len(k)

BitWidths == {8 * k : k \in 1..32}
ByteWidths == 1..32

ParseErr(kind) == Err([kind |-> kind])

\* The error of a tuple whose field `name` failed with `e`: the innermost kind is
\* kept, the path of field names grows at the front.
nested_failure(name, e) ==
    IF e.kind = "NestedFailure"
    THEN Err([kind |-> "NestedFailure", inner |-> e.inner, path |-> <<name>> \o e.path])
    ELSE Err([kind |-> "NestedFailure", inner |-> e.kind, path |-> <<name>>])

\* Array suffixes, peeled left to right: the suffix closest to the base type
\* wraps it first.
RECURSIVE parse_suffixes(_, _)
parse_suffixes_outer_first(ty, rest) ==
    IF Len(rest) = 0 THEN Ok(ty)
    ELSE IF Head(rest) = "["
    THEN LET after == Tail(rest)
             ds == LeadingDigits(after)
             close == Drop(after, Len(ds))
             inner == parse_suffixes(ty, Tail(close))
         IN  IF Len(close) = 0 \/ Head(close) # "]" THEN ParseErr("MalformedArraySuffix")
             ELSE IF Len(ds) > 0 /\ (~IsNumeral(ds) \/ FromDec(ds) = 0)
                  THEN ParseErr("MalformedArraySuffix")
             ELSE IF ~inner.ok THEN inner
             ELSE IF Len(ds) = 0 THEN Ok(Array(inner.val))
             ELSE Ok(FixedArray(inner.val, FromDec(ds)))
    ELSE IF Head(rest) = "]" THEN ParseErr("MalformedArraySuffix")
    ELSE ParseErr("TrailingInput")

parse_suffixes(ty, rest) ==
    IF Len(rest) = 0 THEN Ok(ty)
    ELSE IF Head(rest) = "["
    THEN LET after == Tail(rest)
             ds == LeadingDigits(after)
             close == Drop(after, Len(ds))
         IN  IF Len(close) = 0 \/ Head(close) # "]" THEN ParseErr("MalformedArraySuffix")
             ELSE IF Len(ds) = 0 THEN parse_suffixes(Array(ty), Tail(close))
             ELSE IF ~IsNumeral(ds) \/ FromDec(ds) = 0
                  THEN ParseErr("MalformedArraySuffix")
             ELSE parse_suffixes(FixedArray(ty, FromDec(ds)), Tail(close))
    ELSE IF Head(rest) = "]" THEN ParseErr("MalformedArraySuffix")
    ELSE ParseErr("TrailingInput")

RECURSIVE parse_exact_type(_, _)

\* The component resolver: each nested descriptor parsed with its own
\* components, the (name, Type) pairs assembled in declaration order.
resolve_components(list) ==
    LET rs == [i \in DOMAIN list |-> parse_exact_type(list[i].components, list[i].type_)]
        bad == {i \in DOMAIN list : ~rs[i].ok}
    IN  IF bad # {}
        THEN LET i == CHOOSE k \in bad : \A j \in bad : k <= j
             IN  nested_failure(list[i].name, rs[i].err)
        ELSE Ok(Tuple([i \in DOMAIN list |-> <<list[i].name, rs[i].val>>]))

width_ok_any(kw, ds) == IsNumeral(ds)

width_ok(kw, ds) ==
    /\ IsNumeral(ds)
    /\ IF kw = "bytes" THEN FromDec(ds) \in ByteWidths ELSE FromDec(ds) \in BitWidths

\* A non-tuple base type takes no components list.
no_components(components, ty, rest) ==
    IF components.some THEN ParseErr("UnexpectedComponents")
    ELSE Ok([ty |-> ty, rest |-> rest])

\* The base type at the front of s: Ok([ty, rest]) or the error.
parse_base(components, s) ==
    LET kw == keyword(s)
        after == Drop(s, Len(kw))
        ds == LeadingDigits(after)
        rest == Drop(after, Len(ds))
    IN  CASE kw = "" -> ParseErr("UnknownBaseType")
          [] kw \in {"uint", "int"} ->
               IF ~width_ok(kw, ds) THEN ParseErr("InvalidWidth")
               ELSE no_components(components,
                                  IF kw = "uint" THEN Uint(FromDec(ds)) ELSE Int(FromDec(ds)),
                                  rest)
          [] kw = "bytes" ->
               IF Len(ds) = 0 THEN no_components(components, Bytes, after)
               ELSE IF ~width_ok(kw, ds) THEN ParseErr("InvalidWidth")
               ELSE no_components(components, FixedBytes(FromDec(ds)), rest)
          [] kw = "address" -> no_components(components, Address, after)
          [] kw = "bool" -> no_components(components, Bool, after)
          [] kw = "string" -> no_components(components, String, after)
          [] kw = "tuple" ->
               IF ~components.some THEN ParseErr("MissingComponents")
               ELSE LET r == resolve_components(components.v)
                    IN  IF r.ok THEN Ok([ty |-> r.val, rest |-> after]) ELSE r

\* Ok(type) or Err(error); on Ok the whole string was consumed.
parse_exact_type(components, s) ==
    LET b == parse_base(components, s)
    IN  IF b.ok THEN parse_suffixes(b.val.ty, b.val.rest) ELSE b

\* Display of the parser's error.
to_string(e) ==
    IF e.kind = "NestedFailure"
    THEN "NestedFailure(" \o join(e.path, ".") \o "): " \o e.inner
    ELSE e.kind

-----------------------------------------------------------------------------
(* impl Deserialize for Type: the entry is parsed, the parser's error is     *)
(* returned as a custom error carrying its message, and on success the     *)
(* name, the parsed type and the indexed flag are returned together.       *)

ParamEntry(name, type_, indexed, components) ==
    [name |-> name, type_ |-> type_, indexed |-> indexed, components |-> components]

deserialize_fallback(e) ==
    LET r == parse_exact_type(e.components, e.type_)
    IN  Ok([name |-> e.name,
            type_ |-> IF r.ok THEN r.val ELSE Bytes,
            indexed |-> e.indexed])

deserialize_no_components(e) ==
    LET r == parse_exact_type(None, e.type_)
    IN  IF ~r.ok THEN Err(to_string(r.err))
        ELSE Ok([name |-> e.name, type_ |-> r.val, indexed |-> e.indexed])

deserialize(e) ==
    LET r == parse_exact_type(e.components, e.type_)
    IN  IF ~r.ok THEN Err(to_string(r.err))
        ELSE Ok([name |-> e.name, type_ |-> r.val, indexed |-> e.indexed])

-----------------------------------------------------------------------------
(* The Type values drawn as inputs: every tree the enum's constructors     *)
(* build from the leaves below with at most MaxNodes nodes, widths legal   *)
(* and lengths positive.                                                   *)

Leaves ==
    {Uint(8), Uint(256), Int(16), Address, Bool, FixedBytes(32), String, Bytes}

FieldNames == {"a", "b"}
Lengths == {2, 3}

RECURSIVE TreesOfSize(_), FieldSeqsOfSize(_)
TreesOfSize(n) ==
    IF n = 0 THEN {}
    ELSE IF n = 1 THEN Leaves \cup {Tuple(<<>>)}
    ELSE {Array(e) : e \in TreesOfSize(n - 1)}
         \cup {FixedArray(e, k) : e \in TreesOfSize(n - 1), k \in Lengths}
         \cup {Tuple(fs) : fs \in FieldSeqsOfSize(n - 1)}

\* The field sequences whose field types have m nodes in all.
FieldSeqsOfSize(m) ==
    IF m = 0 THEN {<<>>}
    ELSE UNION {{<< <<nm, t>> >> \o rest :
                    nm \in FieldNames, t \in TreesOfSize(j),
                    rest \in FieldSeqsOfSize(m - j)} : j \in 1..m}

Trees == UNION {TreesOfSize(n) : n \in 1..MaxNodes}

\* Trees built from a tree t, for the second operand of ==.
OtherName(nm) == IF nm = "a" THEN "b" ELSE "a"

RECURSIVE RenameFields(_)
RenameFields(t) ==
    CASE t.tag \in {"FixedArray"} -> FixedArray(RenameFields(t.ty), t.size)
      [] t.tag = "Array" -> Array(RenameFields(t.ty))
      [] t.tag = "Tuple" ->
           Tuple([i \in DOMAIN t.tys |->
                    <<OtherName(t.tys[i][1]), RenameFields(t.tys[i][2])>>])
      [] OTHER -> t

Reverse(seq) == [i \in DOMAIN seq |-> seq[Len(seq) + 1 - i]]

RECURSIVE ReverseFields(_)
ReverseFields(t) ==
    CASE t.tag \in {"FixedArray"} -> FixedArray(ReverseFields(t.ty), t.size)
      [] t.tag = "Array" -> Array(ReverseFields(t.ty))
      [] t.tag = "Tuple" -> Tuple(Reverse(t.tys))
      [] OTHER -> t

RECURSIVE ChangeParams(_)
ChangeParams(t) ==
    CASE t.tag = "Uint" -> Uint((t.size % 256) + 8)
      [] t.tag = "Int" -> Int((t.size % 256) + 8)
      [] t.tag = "FixedBytes" -> FixedBytes((t.size % 32) + 1)
      [] t.tag = "FixedArray" -> FixedArray(ChangeParams(t.ty), t.size + 1)
      [] t.tag = "Array" -> Array(ChangeParams(t.ty))
      [] t.tag = "Tuple" ->
           Tuple([i \in DOMAIN t.tys |-> <<t.tys[i][1], ChangeParams(t.tys[i][2])>>])
      [] OTHER -> t

Others(t) ==
    {t, RenameFields(t), ReverseFields(t), ChangeParams(t), Array(t), Bool,
     Tuple(<< <<"a", t>> >>)}

-----------------------------------------------------------------------------
(* The descriptors drawn as inputs *)

\* Base type strings, in the grammar and out of it.
BaseStrings ==
    {"uint8", "uint256", "uint7", "uint", "uint264", "uint08", "int16", "int0",
     "address", "bool", "bytes", "bytes32", "bytes33", "bytes0", "string",
     "tuple", "foo"}

\* What may follow the base type: array suffixes, well formed and not.
SuffixTokens == {"[]", "[2]", "[3]", "[0]", "[x]", "]", "x"}

RECURSIVE TokenSeqs(_)
TokenSeqs(n) ==
    IF n = 0 THEN {<<>>}
    ELSE TokenSeqs(n - 1)
         \cup {Append(q, t) : q \in {r \in TokenSeqs(n - 1) : Len(r) = n - 1},
                              t \in SuffixTokens}

TypeStrings == {b \o join(q, "") : b \in BaseStrings, q \in TokenSeqs(MaxSuffixes)}

\* Type strings of the nested descriptors and of the descriptors with components.
NestedTypeStrings == {"uint256", "bool", "bytes", "tuple", "tuple[]", "uint7"}
TypeStringsWithComponents ==
    {"tuple", "tuple[]", "tuple[2]", "tuple[2][]", "tuple[0]", "tuplex",
     "uint256", "uint256[]", "bytes", "uint7", "foo"}

\* The fields of a components list are named by position.
PositionNames == <<"x", "y", "z", "w", "v", "u">>
NameList(list) == [i \in DOMAIN list |-> [list[i] EXCEPT !.name = PositionNames[i]]]

RECURSIVE EntriesOfSize(_), EntryListsOfSize(_)
\* The nested descriptors made of n descriptors in all.
EntriesOfSize(n) ==
    IF n = 0 THEN {}
    ELSE IF n = 1
    THEN {ParamEntry("", t, None, c) : t \in NestedTypeStrings, c \in {None, Some(<<>>)}}
    ELSE {ParamEntry("", t, None, Some(NameList(l))) :
             t \in NestedTypeStrings, l \in EntryListsOfSize(n - 1)}

EntryListsOfSize(m) ==
    IF m = 0 THEN {<<>>}
    ELSE UNION {{<<e>> \o rest : e \in EntriesOfSize(j), rest \in EntryListsOfSize(m - j)} :
                  j \in 1..m}

\* The descriptors without nested components.
PlainEntries ==
    {ParamEntry("p", t, ix, c) :
        t \in TypeStrings, ix \in {None, Some(TRUE)}, c \in {None, Some(<<>>)}}

\* The non-empty components lists.
ComponentLists == UNION {EntryListsOfSize(m) : m \in 1..(MaxEntries - 1)}

-----------------------------------------------------------------------------
(* The operations *)

\* Type::deserialize on the descriptor; the caller keeps the type it got.
Deserialize ==
    /\ entry # NoEntry
    /\ param = NoParam
    /\ param' = deserialize(entry)
    /\ self' = IF param'.ok THEN param'.val.type_ ELSE NoType
    /\ UNCHANGED <<entry, result>>

IsDynamic ==
    /\ self # NoType
    /\ result' = [op |-> "is_dynamic", val |-> is_dynamic(self)]
    /\ UNCHANGED <<entry, param, self>>

Fmt ==
    /\ self # NoType
    /\ result' = [op |-> "fmt", val |-> fmt(self)]
    /\ UNCHANGED <<entry, param, self>>

Eq ==
    /\ self # NoType
    /\ \E other \in Others(self) :
          result' = [op |-> "eq", other |-> other, val |-> eq(self, other)]
    /\ UNCHANGED <<entry, param, self>>

\* to_string() of the type handed back to deserialize as a type string.
RoundTrip ==
    /\ self # NoType
    /\ result' = [op |-> "roundtrip",
                  val |-> deserialize(ParamEntry("", fmt(self), None, None))]
    /\ UNCHANGED <<entry, param, self>>

\* The type model: a Type value and the operations on it.
Init ==
    /\ self \in Trees
    /\ entry = NoEntry
    /\ param = NoParam
    /\ result = NoResult

Next == IsDynamic \/ Fmt \/ Eq \/ RoundTrip

Spec == Init /\ [][Next]_vars

\* Parsing: a descriptor, deserialize, and the operations on the type it gave.
InitParse ==
    /\ \/ entry \in PlainEntries
       \/ \E t \in TypeStringsWithComponents, l \in ComponentLists :
             entry = ParamEntry("p", t, None, Some(NameList(l)))
    /\ self = NoType
    /\ param = NoParam
    /\ result = NoResult

NextParse == Deserialize \/ IsDynamic \/ Fmt

SpecParse == InitParse /\ [][NextParse]_vars

-----------------------------------------------------------------------------
(* Helpers of the properties *)

\* The nodes of a tree: the tree and the nodes of its element or field types.
RECURSIVE Subtrees(_)
Subtrees(t) ==
    {t} \cup
    CASE t.tag \in {"FixedArray", "Array"} -> Subtrees(t.ty)
      [] t.tag = "Tuple" -> UNION {Subtrees(t.tys[i][2]) : i \in DOMAIN t.tys}
      [] OTHER -> {}

HasDynamicNode(t) == \E s \in Subtrees(t) : s.tag \in {"Bytes", "String", "Array"}

\* The tree with every field name blanked.
RECURSIVE EraseNames(_)
EraseNames(t) ==
    CASE t.tag = "FixedArray" -> FixedArray(EraseNames(t.ty), t.size)
      [] t.tag = "Array" -> Array(EraseNames(t.ty))
      [] t.tag = "Tuple" -> Tuple([i \in DOMAIN t.tys |-> <<"", EraseNames(t.tys[i][2])>>])
      [] OTHER -> t

\* The renderings of the first k field types, comma separated, built from the left.
RECURSIVE CommaSeparated(_, _)
CommaSeparated(tys, k) ==
    IF k = 0 THEN ""
    ELSE IF k = 1 THEN fmt(tys[1][2])
    ELSE CommaSeparated(tys, k - 1) \o "," \o fmt(tys[k][2])

SwapFields(tys, i, j) ==
    [k \in DOMAIN tys |-> IF k = i THEN tys[j] ELSE IF k = j THEN tys[i] ELSE tys[k]]

-----------------------------------------------------------------------------
(* Properties of the type model, under Spec *)

\* C1: is_dynamic(t) is the structural definition: t is dynamic exactly when a
\* Bytes, String or Array node sits anywhere in it, and so is every node of t
\* (every enclosing level); a FixedArray is as dynamic as its element and a
\* Tuple as dynamic as some field; field names and numeric parameters do not
\* change the result.
C1_IsDynamicStructural ==
    result.op = "is_dynamic" =>
        /\ result.val = HasDynamicNode(self)
        /\ \A s \in Subtrees(self) : is_dynamic(s) = HasDynamicNode(s)
        /\ self.tag = "FixedArray" => result.val = is_dynamic(self.ty)
        /\ self.tag = "Tuple" =>
              result.val = (\E i \in DOMAIN self.tys : is_dynamic(self.tys[i][2]))
        /\ self.tag \in {"Uint", "Int", "Address", "Bool", "FixedBytes"} => ~result.val
        /\ is_dynamic(RenameFields(self)) = result.val
        /\ is_dynamic(ChangeParams(self)) = result.val

\* C1 witness: is_dynamic answered TRUE for a tuple whose field is a fixed
\* array of a dynamic element.
C1_Witness ==
    /\ result.op = "is_dynamic"
    /\ result.val
    /\ self.tag = "Tuple"
    /\ \E i \in DOMAIN self.tys :
          self.tys[i][2].tag = "FixedArray" /\ self.tys[i][2].ty.tag = "String"

\* C2: Array(e) renders as the rendering of e followed by "[]" and
\* FixedArray(e, n) as the rendering of e followed by "[", the decimal n, "]",
\* with nothing before, between or after.
C2_ArrayRendering ==
    result.op = "fmt" =>
        /\ self.tag = "Array" => result.val = fmt(self.ty) \o "[]"
        /\ self.tag = "FixedArray" =>
              result.val = fmt(self.ty) \o "[" \o ToDec(self.size) \o "]"

\* C3: a Tuple renders as "(" + its field types' renderings joined by "," in
\* declaration order + ")"; tuples that differ only in field names render
\* the same, and swapping two fields of different types changes the rendering.
C3_TupleRendering ==
    (result.op = "fmt" /\ self.tag = "Tuple") =>
        /\ result.val = "(" \o CommaSeparated(self.tys, Len(self.tys)) \o ")"
        /\ fmt(RenameFields(self)) = result.val
        /\ \A i, j \in DOMAIN self.tys :
              EraseNames(self.tys[i][2]) # EraseNames(self.tys[j][2])
                  => fmt(Tuple(SwapFields(self.tys, i, j))) # result.val

\* C3 witness: a tuple of two fields of different types was rendered.
C3_Witness ==
    /\ result.op = "fmt"
    /\ self = Tuple(<< <<"a", Uint(8)>>, <<"b", Bool>> >>)
    /\ result.val = "(uint8,bool)"

\* Trees without a Tuple node: their rendering uses the grammar of type strings only.
TupleFree(t) == \A s \in Subtrees(t) : s.tag # "Tuple"

\* C4: round trip: parsing the canonical rendering of a tree gives the tree back,
\* field names disregarded (stated for the trees without Tuple nodes, whose
\* type string needs no components list).
C4_RoundTrip ==
    (result.op = "roundtrip" /\ TupleFree(self)) =>
        /\ result.val.ok
        /\ EraseNames(result.val.val.type_) = EraseNames(self)

\* C10 as claimed: equality does not look at tuple field names.
C10_EqIgnoresNames ==
    result.op = "eq" =>
        (result.val <=> (EraseNames(self) = EraseNames(result.other)))

\* C10 as amended: two trees are equal iff their tags, numeric parameters,
\* element and field types AND tuple field names are equal, fields compared in
\* order: tuples with the same field types under different names are not
\* equal, and neither are tuples with the same fields in another order.
C10_EqStructuralWithNames ==
    result.op = "eq" =>
        /\ result.val <=> (self = result.other)
        /\ EraseNames(self) # EraseNames(result.other) => ~result.val
        /\ (result.other = RenameFields(self) /\ \E s \in Subtrees(self) :
                s.tag = "Tuple" /\ Len(s.tys) > 0) => ~result.val
        /\ (result.other = ReverseFields(self) /\ result.other # self) => ~result.val

\* C10 witness: a two-field tuple compared with itself under other field names.
C10_Witness ==
    /\ result.op = "eq"
    /\ self.tag = "Tuple"
    /\ Len(self.tys) = 2
    /\ result.other = RenameFields(self)
    /\ EraseNames(result.other) = EraseNames(self)
    /\ ~result.val

-----------------------------------------------------------------------------
(* The grammar of type strings, written as the set of strings it generates *)

ScalarBases ==
    {"uint" \o ToDec(w) : w \in BitWidths}
    \cup {"int" \o ToDec(w) : w \in BitWidths}
    \cup {"bytes" \o ToDec(b) : b \in ByteWidths}
    \cup {"address", "bool", "bytes", "string"}

GoodSuffixTokens == {"[]"} \cup {"[" \o ToDec(n) \o "]" : n \in 1..9}

\* s is a run of well-formed array suffixes.
RECURSIVE IsGoodSuffixes(_)
IsGoodSuffixes(s) ==
    \/ Len(s) = 0
    \/ \E t \in GoodSuffixTokens : StartsWith(s, t) /\ IsGoodSuffixes(Drop(s, Len(t)))

\* s is a scalar base type followed by something that is not one more digit.
HasScalarBase(s) ==
    \E b \in ScalarBases :
        /\ StartsWith(s, b)
        /\ Len(s) = Len(b) \/ ~IsDigit(SubSeq(s, Len(b) + 1, Len(b) + 1))

HasTupleBase(s) == StartsWith(s, "tuple")

\* s is in the grammar: a base type and array suffixes, nothing else.
InGrammar(s) ==
    \E b \in ScalarBases \cup {"tuple"} :
        StartsWith(s, b) /\ IsGoodSuffixes(Drop(s, Len(b)))

\* The descriptor, and every nested one, is in the grammar and carries a
\* components list exactly when its base type is tuple.
RECURSIVE DescriptorOk(_)
DescriptorOk(e) ==
    /\ InGrammar(e.type_)
    /\ e.components.some <=> HasTupleBase(e.type_)
    /\ e.components.some =>
          \A i \in DOMAIN e.components.v : DescriptorOk(e.components.v[i])

\* Components lists are present exactly with tuple base types, at every level.
RECURSIVE PairingOk(_)
PairingOk(e) ==
    /\ e.components.some <=> HasTupleBase(e.type_)
    /\ e.components.some =>
          \A i \in DOMAIN e.components.v : PairingOk(e.components.v[i])

\* The array nodes on top of a tree, outermost first, each as its suffix.
RECURSIVE Wrappers(_)
Wrappers(t) ==
    CASE t.tag = "Array" -> <<"[]">> \o Wrappers(t.ty)
      [] t.tag = "FixedArray" -> <<"[" \o ToDec(t.size) \o "]">> \o Wrappers(t.ty)
      [] OTHER -> <<>>

RECURSIVE StripArrays(_)
StripArrays(t) ==
    IF t.tag \in {"Array", "FixedArray"} THEN StripArrays(t.ty) ELSE t

\* The type string from its first "[" on.
RECURSIVE SuffixPart(_)
SuffixPart(s) ==
    IF Len(s) = 0 THEN ""
    ELSE IF Head(s) = "[" THEN s
    ELSE SuffixPart(Tail(s))

BasePart(s) == SubSeq(s, 1, Len(s) - Len(SuffixPart(s)))

\* The tree is the whole descriptor: its array nodes are the suffixes, under
\* them the base type, a tuple holding one field per component, named and
\* typed as the component, at every level.
RECURSIVE Mirrors(_, _)
Mirrors(e, t) ==
    LET core == StripArrays(t)
    IN  /\ join(Reverse(Wrappers(t)), "") = SuffixPart(e.type_)
        /\ IF core.tag = "Tuple"
           THEN /\ BasePart(e.type_) = "tuple"
                /\ e.components.some
                /\ Len(core.tys) = Len(e.components.v)
                /\ \A i \in DOMAIN core.tys :
                      /\ core.tys[i][1] = e.components.v[i].name
                      /\ Mirrors(e.components.v[i], core.tys[i][2])
           ELSE /\ core.tag \in {"Uint", "Int", "Address", "Bool", "FixedBytes",
                                 "String", "Bytes"}
                /\ fmt(core) = BasePart(e.type_)

\* Every width and length in the tree is legal.
WellFormed(t) ==
    \A s \in Subtrees(t) :
        /\ s.tag \in {"Uint", "Int"} => s.size \in BitWidths
        /\ s.tag = "FixedBytes" => s.size \in ByteWidths
        /\ s.tag = "FixedArray" => s.size > 0

\* uint, int or bytes with a numeral outside the keyword's widths.
IllegalWidthBases ==
    {"uint" \o ToDec(n) : n \in (0..300) \ BitWidths}
    \cup {"int" \o ToDec(n) : n \in (0..300) \ BitWidths}
    \cup {"bytes" \o ToDec(n) : n \in (0..300) \ ByteWidths}

\* s starts with uint, int or bytes and a numeral outside the keyword's widths.
HasIllegalWidth(s) ==
    \E b \in IllegalWidthBases :
        /\ StartsWith(s, b)
        /\ Len(s) = Len(b) \/ ~IsDigit(SubSeq(s, Len(b) + 1, Len(b) + 1))

\* s is well-formed suffixes, then a zero-length suffix.
RECURSIVE ZeroLengthAhead(_)
ZeroLengthAhead(s) ==
    \/ StartsWith(s, "[0]")
    \/ \E t \in GoodSuffixTokens : StartsWith(s, t) /\ ZeroLengthAhead(Drop(s, Len(t)))

\* s is a scalar base type, well-formed suffixes, then a zero-length suffix.
HasZeroLength(s) ==
    \E b \in ScalarBases : StartsWith(s, b) /\ ZeroLengthAhead(Drop(s, Len(b)))

\* The canonical signature a descriptor stands for: its type string with each
\* tuple keyword replaced by its components' signatures in parentheses.
RECURSIVE SignatureOf(_)
SignatureOf(e) ==
    IF HasTupleBase(e.type_)
    THEN "(" \o join([i \in DOMAIN e.components.v |-> SignatureOf(e.components.v[i])], ",")
             \o ")" \o Drop(e.type_, 5)
    ELSE e.type_

Deserialized == param # NoParam

-----------------------------------------------------------------------------
(* Properties of parsing, under SpecParse *)

\* C5: rendering inverts parsing: the rendering of the parsed tree is the
\* input type string with each tuple keyword replaced by its components'
\* renderings in parentheses; type "tuple[2]" with components x:uint256,
\* y:bool parses to FixedArray(Tuple([(x,Uint(256)),(y,Bool)]),2), is static
\* and renders as "(uint256,bool)[2]".
C5_RenderInvertsParse ==
    (Deserialized /\ param.ok) =>
        /\ result.op = "fmt" => result.val = SignatureOf(entry)
        /\ (entry.type_ = "tuple[2]" /\ SignatureOf(entry) = "(uint256,bool)[2]") =>
              /\ self = FixedArray(Tuple(<< <<"x", Uint(256)>>, <<"y", Bool>> >>), 2)
              /\ result.op = "is_dynamic" => ~result.val
              /\ result.op = "fmt" => result.val = "(uint256,bool)[2]"

\* C6: the suffix closest to the base type wraps it first and the last-written
\* suffix is the outermost node: the array nodes of the parsed tree, read from
\* the innermost out, are the suffixes as written; "uint8[2][3]" gives
\* FixedArray(FixedArray(Uint(8),2),3).
C6_NestingOrder ==
    (Deserialized /\ param.ok) =>
        /\ join(Reverse(Wrappers(self)), "") = SuffixPart(entry.type_)
        /\ entry.type_ = "uint8[2][3]" => self = FixedArray(FixedArray(Uint(8), 2), 3)
        /\ self # FixedArray(FixedArray(Uint(8), 3), 2) \/ entry.type_ = "uint8[3][2]"

\* C6 witness: "uint8[2][3]" was parsed.
C6_Witness ==
    /\ Deserialized
    /\ entry.type_ = "uint8[2][3]"
    /\ param.ok
    /\ self = FixedArray(FixedArray(Uint(8), 2), 3)

\* The first component of e that does not parse, 0 when all do.
FirstFailing(e) ==
    LET bad == {i \in DOMAIN e.components.v : ~deserialize(e.components.v[i]).ok}
    IN  IF bad = {} THEN 0 ELSE CHOOSE k \in bad : \A j \in bad : k <= j

\* C7: a descriptor is accepted only if components lists are present exactly
\* with tuple base types, at every level; a tuple base type without a
\* components list fails with MissingComponents and a non-tuple base type
\* with a components list with UnexpectedComponents, and so does a component
\* (the error then names the field).
C7_ComponentsPairing ==
    Deserialized =>
        /\ param.ok => PairingOk(entry)
        /\ (HasTupleBase(entry.type_) /\ ~entry.components.some)
              => param = Err("MissingComponents")
        /\ (HasScalarBase(entry.type_) /\ entry.components.some)
              => param = Err("UnexpectedComponents")
        /\ (HasTupleBase(entry.type_) /\ entry.components.some /\ FirstFailing(entry) > 0) =>
              LET c == entry.components.v[FirstFailing(entry)]
              IN  /\ (HasTupleBase(c.type_) /\ ~c.components.some)
                        => param = Err("NestedFailure(" \o c.name \o "): MissingComponents")
                  /\ (HasScalarBase(c.type_) /\ c.components.some)
                        => param = Err("NestedFailure(" \o c.name \o "): UnexpectedComponents")

\* C7 witness: "uint256" with a non-empty components list was refused.
C7_Witness ==
    /\ Deserialized
    /\ entry.type_ = "uint256"
    /\ entry.components.some
    /\ Len(entry.components.v) > 0
    /\ param = Err("UnexpectedComponents")

\* C8: every width and length in a parsed tree is legal; a type string with a
\* width outside its keyword's set is refused with InvalidWidth, one with a
\* zero length with MalformedArraySuffix, and "uint256" parses to Uint(256).
C8_WidthValidation ==
    Deserialized =>
        /\ param.ok => WellFormed(self)
        /\ HasIllegalWidth(entry.type_) => param = Err("InvalidWidth")
        /\ (HasZeroLength(entry.type_) /\ ~entry.components.some)
              => param = Err("MalformedArraySuffix")
        /\ (entry.type_ = "uint256" /\ ~entry.components.some)
              => (param.ok /\ self = Uint(256))

\* C8 witness: "uint7" was refused with InvalidWidth.
C8_Witness ==
    /\ Deserialized
    /\ entry.type_ = "uint7"
    /\ param = Err("InvalidWidth")

\* C9: no partial acceptance: deserialize succeeds exactly when the
\* descriptor and every nested component are in the grammar; on success the
\* tree is the whole descriptor, on failure there is an error and no tree.
C9_NoPartialAccept ==
    Deserialized =>
        /\ param.ok <=> DescriptorOk(entry)
        /\ param.ok => (self # NoType /\ Mirrors(entry, self) /\ DOMAIN param = {"ok", "val"})
        /\ ~param.ok => (self = NoType /\ DOMAIN param = {"ok", "err"})

\* C9 witness: a component two levels down is out of the grammar and the whole
\* parse failed.
C9_Witness ==
    /\ Deserialized
    /\ ~param.ok
    /\ self = NoType
    /\ HasTupleBase(entry.type_)
    /\ entry.components.some
    /\ \E i \in DOMAIN entry.components.v :
          LET c == entry.components.v[i]
          IN  /\ InGrammar(c.type_)
              /\ c.components.some
              /\ \E j \in DOMAIN c.components.v : ~InGrammar(c.components.v[j].type_)

====
